---- MODULE Spec2Model ----
(***************************************************************************)
(* Model of package handling (src/handling/service.go): the use-case that  *)
(* registers a handling event and notifies the inspection subsystem.       *)
(*                                                                         *)
(* Every caller is a goroutine running service.RegisterHandlingEvent once. *)
(* A step of a call is one access to something the calls share (the clock  *)
(* and the factory, the repository, the event handler) together with the   *)
(* purely local statements that follow it, so every interleaving of the    *)
(* shared accesses of concurrent calls is a behaviour of the model.  The   *)
(* collaborators of package cargo and package inspection (factory,         *)
(* repository, inspection service) are not part of package handling; they  *)
(* are modelled from their documented contracts.                           *)
(***************************************************************************)
EXTENDS Integers, Sequences, FiniteSets, TLC

\* ---------------------------------------------------------------- bounds
NumCallers == 2
MaxClock == 2

Callers == 1..NumCallers

\* ------------------------------------------------------------- constants
\* errors.New("invalid argument")
ErrInvalidArgument == "invalid argument"
\* the nil error
Nil == "nil"
\* the value of a variable the method has not assigned yet
Unset == "unset"
\* cargo.NotHandled, the zero value of cargo.HandlingEventType
NotHandled == "NotHandled"
\* what time.Time{}.IsZero() recognises
ZeroTime == 0

\* ---------------------------------------------------------------- inputs
CompletionTimes == {ZeroTime, 100}
TrackingIDs == {"", "T1", "T2"}
VoyageNumbers == {"", "V1"}
UNLocodes == {"", "L1"}
HandlingEventTypes == {NotHandled, "Load"}
\* errors the factory may answer (unknown cargo, voyage or location)
FactoryErrors == {"unknown voyage", "unknown location"}
\* what the inspection service may conclude about a cargo
InspectionOutcomes == {"ontrack", "misdirected"}

NoArgs == [completionTime |-> ZeroTime, trackingID |-> "", voyage |-> "",
           loc |-> "", eventType |-> NotHandled]
\* HandlingEvent{}, the zero event
NoEvent == [registered |-> ZeroTime, completed |-> ZeroTime, trackingID |-> "",
            voyageNumber |-> "", unLocode |-> "", eventType |-> NotHandled]

VARIABLES
  clock,         \* the system clock read by time.Now()
  pc,            \* pc[c]: where caller c is in RegisterHandlingEvent
  args,          \* args[c]: the five arguments caller c passes
  callTime,      \* callTime[c]: the clock when the call in progress was made
  clockReads,    \* clockReads[c]: how often the call has read the clock
  e,             \* e[c]: the local variable e
  err,           \* err[c]: the local variable err
  ret,           \* ret[c]: the value the call returned to caller c
  factoryCalls,  \* factoryCalls[c]: the argument lists c passed to the factory
  repo,          \* the handling event repository: events in order of Store
  storeCalls,    \* the Store invocations so far, in order
  handlerCalls,  \* the CargoWasHandled invocations so far, in order
  inspected      \* the inspection service's log, in order of InspectCargo

vars == <<clock, pc, args, callTime, clockReads, e, err, ret, factoryCalls,
          repo, storeCalls, handlerCalls, inspected>>

\* ---------------------------------------------------------- collaborators
\* cargo.HandlingEventFactory.CreateHandlingEvent: builds the event from its
\* arguments, or rejects them with an error (answer).
CreateHandlingEvent(registered, completed, id, voyageNumber, unLocode, eventType, answer) ==
  IF answer = Nil
  THEN [e |-> [registered |-> registered, completed |-> completed, trackingID |-> id,
               voyageNumber |-> voyageNumber, unLocode |-> unLocode,
               eventType |-> eventType],
        err |-> Nil]
  ELSE [e |-> NoEvent, err |-> answer]

\* cargo.HandlingEventRepository.Store: an append-only store
Store(r, event) == Append(r, event)

\* inspection.Service.InspectCargo: inspects the cargo with that tracking id
\* and reaches some conclusion, which it keeps to itself
InspectCargo(log, id, outcome) == Append(log, [trackingID |-> id, outcome |-> outcome])

\* ------------------------------------------------------------------ Init
Init ==
  /\ clock = 1
  /\ pc = [c \in Callers |-> "idle"]
  /\ args = [c \in Callers |-> NoArgs]
  /\ callTime = [c \in Callers |-> ZeroTime]
  /\ clockReads = [c \in Callers |-> 0]
  /\ e = [c \in Callers |-> NoEvent]
  /\ err = [c \in Callers |-> Unset]
  /\ ret = [c \in Callers |-> Unset]
  /\ factoryCalls = [c \in Callers |-> <<>>]
  /\ repo = <<>>
  /\ storeCalls = <<>>
  /\ handlerCalls = <<>>
  /\ inspected = <<>>

\* the clock advances and never goes backwards
Tick ==
  /\ clock < MaxClock
  /\ clock' = clock + 1
  /\ UNCHANGED <<pc, args, callTime, clockReads, e, err, ret, factoryCalls,
                 repo, storeCalls, handlerCalls, inspected>>

\* the arguments a caller may pass
Arguments ==
  [completionTime : CompletionTimes, trackingID : TrackingIDs, voyage : VoyageNumbers,
   loc : UNLocodes, eventType : HandlingEventTypes]

\* the check without its last disjunct: NotHandled passes
InvalidArguments_noEventType(a) ==
  \/ a.completionTime = ZeroTime
  \/ a.trackingID = ""
  \/ a.voyage = ""
  \/ a.loc = ""

\* the condition of the if statement at the head of RegisterHandlingEvent
InvalidArguments(a) ==
  \/ a.completionTime = ZeroTime
  \/ a.trackingID = ""
  \/ a.voyage = ""
  \/ a.loc = ""
  \/ a.eventType = NotHandled

\* the clock read hoisted above the check: a rejected call has read it
CallInvalid_readsClock(c) ==
  /\ pc[c] = "idle"
  /\ \E a \in Arguments :
       /\ InvalidArguments(a)
       /\ args' = [args EXCEPT ![c] = a]
  /\ clockReads' = [clockReads EXCEPT ![c] = @ + 1]
  /\ ret' = [ret EXCEPT ![c] = ErrInvalidArgument]
  /\ pc' = [pc EXCEPT ![c] = "done"]
  /\ UNCHANGED <<clock, callTime, e, err, factoryCalls,
                 repo, storeCalls, handlerCalls, inspected>>

\* a call whose arguments fail the check: return ErrInvalidArgument
CallInvalid(c) ==
  /\ pc[c] = "idle"
  /\ \E a \in Arguments :
       /\ InvalidArguments(a)
       /\ args' = [args EXCEPT ![c] = a]
  /\ ret' = [ret EXCEPT ![c] = ErrInvalidArgument]
  /\ pc' = [pc EXCEPT ![c] = "done"]
  /\ UNCHANGED <<clock, callTime, clockReads, e, err, factoryCalls,
                 repo, storeCalls, handlerCalls, inspected>>

\* a call whose arguments pass the check: on to the factory
CallValid(c) ==
  /\ pc[c] = "idle"
  /\ \E a \in Arguments :
       /\ ~InvalidArguments(a)
       /\ args' = [args EXCEPT ![c] = a]
  /\ callTime' = [callTime EXCEPT ![c] = clock]
  /\ pc' = [pc EXCEPT ![c] = "create"]
  /\ UNCHANGED <<clock, clockReads, e, err, ret, factoryCalls,
                 repo, storeCalls, handlerCalls, inspected>>

\* the factory's error replaced by the service's own: return ErrInvalidArgument
Create_ownError(c) ==
  /\ pc[c] = "create"
  /\ \E answer \in {Nil} \cup FactoryErrors :
       LET a == args[c]
           r == CreateHandlingEvent(clock, a.completionTime, a.trackingID,
                                    a.voyage, a.loc, a.eventType, answer)
       IN /\ e' = [e EXCEPT ![c] = r.e]
          /\ err' = [err EXCEPT ![c] = r.err]
          /\ factoryCalls' = [factoryCalls EXCEPT ![c] =
                 Append(@, <<clock, a.completionTime, a.trackingID,
                             a.voyage, a.loc, a.eventType>>)]
          /\ IF r.err # Nil
             THEN /\ ret' = [ret EXCEPT ![c] = ErrInvalidArgument]
                  /\ callTime' = [callTime EXCEPT ![c] = ZeroTime]
                  /\ pc' = [pc EXCEPT ![c] = "done"]
             ELSE /\ pc' = [pc EXCEPT ![c] = "store"]
                  /\ UNCHANGED <<ret, callTime>>
  /\ clockReads' = [clockReads EXCEPT ![c] = @ + 1]
  /\ UNCHANGED <<clock, args, repo, storeCalls, handlerCalls, inspected>>

\* voyage and loc passed to the factory in each other's place
Create_swapped(c) ==
  /\ pc[c] = "create"
  /\ \E answer \in {Nil} \cup FactoryErrors :
       LET a == args[c]
           r == CreateHandlingEvent(clock, a.completionTime, a.trackingID,
                                    a.loc, a.voyage, a.eventType, answer)
       IN /\ e' = [e EXCEPT ![c] = r.e]
          /\ err' = [err EXCEPT ![c] = r.err]
          /\ factoryCalls' = [factoryCalls EXCEPT ![c] =
                 Append(@, <<clock, a.completionTime, a.trackingID,
                             a.loc, a.voyage, a.eventType>>)]
          /\ IF r.err # Nil
             THEN /\ ret' = [ret EXCEPT ![c] = r.err]
                  /\ callTime' = [callTime EXCEPT ![c] = ZeroTime]
                  /\ pc' = [pc EXCEPT ![c] = "done"]
             ELSE /\ pc' = [pc EXCEPT ![c] = "store"]
                  /\ UNCHANGED <<ret, callTime>>
  /\ clockReads' = [clockReads EXCEPT ![c] = @ + 1]
  /\ UNCHANGED <<clock, args, repo, storeCalls, handlerCalls, inspected>>

\* e, err := s.handlingEventFactory.CreateHandlingEvent(time.Now(), ...)
\* if err != nil { return err }
Create(c) ==
  /\ pc[c] = "create"
  /\ \E answer \in {Nil} \cup FactoryErrors :
       LET a == args[c]
           r == CreateHandlingEvent(clock, a.completionTime, a.trackingID,
                                    a.voyage, a.loc, a.eventType, answer)
       IN /\ e' = [e EXCEPT ![c] = r.e]
          /\ err' = [err EXCEPT ![c] = r.err]
          /\ factoryCalls' = [factoryCalls EXCEPT ![c] =
                 Append(@, <<clock, a.completionTime, a.trackingID,
                             a.voyage, a.loc, a.eventType>>)]
          /\ IF r.err # Nil
             THEN /\ ret' = [ret EXCEPT ![c] = r.err]
                  /\ callTime' = [callTime EXCEPT ![c] = ZeroTime]
                  /\ pc' = [pc EXCEPT ![c] = "done"]
             ELSE /\ pc' = [pc EXCEPT ![c] = "store"]
                  /\ UNCHANGED <<ret, callTime>>
  /\ clockReads' = [clockReads EXCEPT ![c] = @ + 1]
  /\ UNCHANGED <<clock, args, repo, storeCalls, handlerCalls, inspected>>

\* the event stored twice
StoreEvent_twice(c) ==
  /\ pc[c] = "store"
  /\ repo' = Store(Store(repo, e[c]), e[c])
  /\ storeCalls' = storeCalls \o <<[caller |-> c, event |-> e[c]],
                                   [caller |-> c, event |-> e[c]]>>
  /\ pc' = [pc EXCEPT ![c] = "notify"]
  /\ UNCHANGED <<clock, args, callTime, clockReads, e, err, ret, factoryCalls,
                 handlerCalls, inspected>>

\* the Store call left out
StoreEvent_skipped(c) ==
  /\ pc[c] = "store"
  /\ pc' = [pc EXCEPT ![c] = "notify"]
  /\ UNCHANGED <<clock, args, callTime, clockReads, e, err, ret, factoryCalls,
                 repo, storeCalls, handlerCalls, inspected>>

\* s.handlingEventRepository.Store(e)
StoreEvent(c) ==
  /\ pc[c] = "store"
  /\ repo' = Store(repo, e[c])
  /\ storeCalls' = Append(storeCalls, [caller |-> c, event |-> e[c]])
  /\ pc' = [pc EXCEPT ![c] = "notify"]
  /\ UNCHANGED <<clock, args, callTime, clockReads, e, err, ret, factoryCalls,
                 handlerCalls, inspected>>

\* the handler passing the voyage number of the event
CargoWasHandled_voyage(log, event, outcome) ==
  InspectCargo(log, event.voyageNumber, outcome)

\* handlingEventHandler.CargoWasHandled, the handler NewEventHandler builds:
\* h.InspectionService.InspectCargo(event.TrackingID)
CargoWasHandled(log, event, outcome) == InspectCargo(log, event.trackingID, outcome)

\* the two calls in the other order: the handler first, the repository second
Notify_beforeStore(c) ==
  \/ /\ pc[c] = "store"
     /\ \E outcome \in InspectionOutcomes :
          inspected' = CargoWasHandled(inspected, e[c], outcome)
     /\ handlerCalls' = Append(handlerCalls, [caller |-> c, event |-> e[c]])
     /\ pc' = [pc EXCEPT ![c] = "notify"]
     /\ UNCHANGED <<clock, args, callTime, clockReads, e, err, ret, factoryCalls,
                    repo, storeCalls>>
  \/ /\ pc[c] = "notify"
     /\ repo' = Store(repo, e[c])
     /\ storeCalls' = Append(storeCalls, [caller |-> c, event |-> e[c]])
     /\ ret' = [ret EXCEPT ![c] = Nil]
     /\ callTime' = [callTime EXCEPT ![c] = ZeroTime]
     /\ pc' = [pc EXCEPT ![c] = "done"]
     /\ UNCHANGED <<clock, args, clockReads, e, err, factoryCalls,
                    handlerCalls, inspected>>

\* the handler invoked without waiting for the Store call of the event
Notify_early(c) ==
  /\ pc[c] \in {"store", "notify"}
  /\ \E outcome \in InspectionOutcomes :
       inspected' = CargoWasHandled(inspected, e[c], outcome)
  /\ handlerCalls' = Append(handlerCalls, [caller |-> c, event |-> e[c]])
  /\ ret' = [ret EXCEPT ![c] = Nil]
  /\ callTime' = [callTime EXCEPT ![c] = ZeroTime]
  /\ pc' = [pc EXCEPT ![c] = "done"]
  /\ UNCHANGED <<clock, args, clockReads, e, err, factoryCalls, repo, storeCalls>>

\* the conclusion of the inspection returned to the caller as an error
Notify_failing(c) ==
  /\ pc[c] = "notify"
  /\ \E outcome \in InspectionOutcomes :
       /\ inspected' = CargoWasHandled(inspected, e[c], outcome)
       /\ ret' = [ret EXCEPT ![c] = IF outcome = "misdirected"
                                    THEN ErrInvalidArgument ELSE Nil]
  /\ handlerCalls' = Append(handlerCalls, [caller |-> c, event |-> e[c]])
  /\ callTime' = [callTime EXCEPT ![c] = ZeroTime]
  /\ pc' = [pc EXCEPT ![c] = "done"]
  /\ UNCHANGED <<clock, args, clockReads, e, err, factoryCalls, repo, storeCalls>>

\* s.handlingEventHandler.CargoWasHandled(e)
\* return nil
Notify(c) ==
  /\ pc[c] = "notify"
  /\ \E outcome \in InspectionOutcomes :
       inspected' = CargoWasHandled(inspected, e[c], outcome)
  /\ handlerCalls' = Append(handlerCalls, [caller |-> c, event |-> e[c]])
  /\ ret' = [ret EXCEPT ![c] = Nil]
  /\ callTime' = [callTime EXCEPT ![c] = ZeroTime]
  /\ pc' = [pc EXCEPT ![c] = "done"]
  /\ UNCHANGED <<clock, args, clockReads, e, err, factoryCalls, repo, storeCalls>>

Next ==
  \/ Tick
  \/ \E c \in Callers : CallInvalid(c)
  \/ \E c \in Callers : CallValid(c)
  \/ \E c \in Callers : Create(c)
  \/ \E c \in Callers : StoreEvent(c)
  \/ \E c \in Callers : Notify(c)

Spec == Init /\ [][Next]_vars

\* ------------------------------------------------------------ properties
\* the positions of caller c's invocations in a log of invocations
CallsBy(log, c) == {i \in 1..Len(log) : log[i].caller = c}

\* the arguments the contract of RegisterHandlingEvent rules out: a zero
\* completion time, an empty tracking id, voyage number or location, or the
\* event type NotHandled
Malformed(a) ==
  \/ a.completionTime = 0
  \/ "" \in {a.trackingID, a.voyage, a.loc}
  \/ a.eventType = "NotHandled"

Valid(c) == pc[c] # "idle" /\ ~Malformed(args[c])
Returned(c) == pc[c] = "done"

\* the event a factory that accepts the argument list f answers
EventOf(f) == CreateHandlingEvent(f[1], f[2], f[3], f[4], f[5], f[6], Nil).e

TypeOK ==
  /\ clock \in 1..MaxClock
  /\ pc \in [Callers -> {"idle", "create", "store", "notify", "done"}]
  /\ args \in [Callers -> Arguments]
  /\ callTime \in [Callers -> 0..MaxClock]
  /\ ret \in [Callers -> {Unset, Nil, ErrInvalidArgument} \cup FactoryErrors]
  /\ Len(repo) = Len(storeCalls)
  /\ Len(inspected) = Len(handlerCalls)

\* C1: a call with a zero completion time, an empty tracking id, voyage number
\* or location, or the event type NotHandled has returned ErrInvalidArgument
\* and has invoked neither the factory nor Store nor CargoWasHandled, whatever
\* the factory answers to other calls; nothing in the repository or in the
\* inspection log comes from it.
C1_InvalidArgumentRejected ==
  \A c \in Callers :
    (pc[c] # "idle" /\ Malformed(args[c])) =>
      /\ Returned(c)
      /\ ret[c] = ErrInvalidArgument
      /\ factoryCalls[c] = <<>>
      /\ CallsBy(storeCalls, c) = {}
      /\ CallsBy(handlerCalls, c) = {}
      /\ e[c] = NoEvent /\ err[c] = Unset
      /\ Len(repo) = Cardinality({i \in 1..Len(storeCalls) : storeCalls[i].caller # c})
      /\ Len(inspected) =
           Cardinality({i \in 1..Len(handlerCalls) : handlerCalls[i].caller # c})

\* a call rejected only for its event type, next to a registration that went through
C1_Witness ==
  \E c, d \in Callers :
    /\ Returned(c) /\ ret[c] = ErrInvalidArgument
    /\ args[c].eventType = NotHandled /\ args[c].completionTime # ZeroTime
    /\ args[c].trackingID # "" /\ args[c].voyage # "" /\ args[c].loc # ""
    /\ Returned(d) /\ ret[d] = Nil /\ Len(repo) = 1 /\ Len(inspected) = 1

\* C2: a call with valid arguments that the factory accepted makes exactly one
\* Store call and exactly one CargoWasHandled call, both with the event the
\* factory returned, and the Store call comes first.
C2_StoreThenNotifyOnce ==
  \A c \in Callers :
    (Valid(c) /\ err[c] = Nil) =>
      /\ e[c] = EventOf(factoryCalls[c][1])
      /\ \A i \in CallsBy(storeCalls, c) : storeCalls[i].event = e[c] /\ repo[i] = e[c]
      /\ \A i \in CallsBy(handlerCalls, c) : handlerCalls[i].event = e[c]
      /\ pc[c] = "store" =>
           CallsBy(storeCalls, c) = {} /\ CallsBy(handlerCalls, c) = {}
      /\ pc[c] = "notify" =>
           Cardinality(CallsBy(storeCalls, c)) = 1 /\ CallsBy(handlerCalls, c) = {}
      /\ Returned(c) =>
           /\ Cardinality(CallsBy(storeCalls, c)) = 1
           /\ Cardinality(CallsBy(handlerCalls, c)) = 1

C2_Witness ==
  \E c \in Callers :
    /\ Valid(c) /\ err[c] = Nil /\ Returned(c)
    /\ Cardinality(CallsBy(storeCalls, c)) = 1
    /\ Cardinality(CallsBy(handlerCalls, c)) = 1

\* C3: a call with valid arguments that the factory rejected has returned the
\* factory's error itself, which is not ErrInvalidArgument, and has invoked
\* neither Store nor CargoWasHandled.
C3_FactoryErrorReturned ==
  \A c \in Callers :
    (Valid(c) /\ err[c] \notin {Unset, Nil}) =>
      /\ Returned(c)
      /\ ret[c] = err[c]
      /\ ret[c] \in FactoryErrors
      /\ ret[c] # ErrInvalidArgument
      /\ e[c] = NoEvent
      /\ CallsBy(storeCalls, c) = {}
      /\ CallsBy(handlerCalls, c) = {}

C3_Witness ==
  \E c \in Callers :
    Valid(c) /\ Returned(c) /\ err[c] = "unknown voyage" /\ ret[c] = "unknown voyage"

\* C4: a call has returned nil exactly when its five arguments are valid and
\* the factory returned no error, whatever the repository holds and whatever
\* the inspection concluded.
C4_NilIffValidAndCreated ==
  \A c \in Callers :
    /\ Returned(c) => (ret[c] = Nil <=> (~Malformed(args[c]) /\ err[c] = Nil))
    /\ ~Returned(c) => ret[c] = Unset

\* a registration that returned nil although the inspection found the cargo misdirected
C4_Witness ==
  \E c \in Callers :
    /\ Returned(c) /\ ret[c] = Nil
    /\ \E i \in CallsBy(handlerCalls, c) : inspected[i].outcome = "misdirected"

\* C5: a call with valid arguments invokes the factory exactly once, with a
\* registration time of the service's and then the caller's completionTime,
\* trackingID, voyageNumber, unLocode and eventType in that order; the event
\* it stores has the caller's values in its fields.
C5_FactoryCalledOnceWithArguments ==
  \A c \in Callers :
    /\ Valid(c) /\ pc[c] = "create" => factoryCalls[c] = <<>>
    /\ Valid(c) /\ pc[c] # "create" =>
         /\ Len(factoryCalls[c]) = 1
         /\ factoryCalls[c][1][1] \in 1..MaxClock
         /\ factoryCalls[c][1][2] = args[c].completionTime
         /\ factoryCalls[c][1][3] = args[c].trackingID
         /\ factoryCalls[c][1][4] = args[c].voyage
         /\ factoryCalls[c][1][5] = args[c].loc
         /\ factoryCalls[c][1][6] = args[c].eventType
    /\ \A i \in CallsBy(storeCalls, c) :
         /\ repo[i].registered = factoryCalls[c][1][1]
         /\ repo[i].completed = args[c].completionTime
         /\ repo[i].trackingID = args[c].trackingID
         /\ repo[i].voyageNumber = args[c].voyage
         /\ repo[i].unLocode = args[c].loc
         /\ repo[i].eventType = args[c].eventType

C5_Witness ==
  \E c \in Callers :
    /\ Valid(c) /\ Len(factoryCalls[c]) = 1
    /\ \E i \in CallsBy(storeCalls, c) : repo[i].trackingID = "T2"

\* C6: every CargoWasHandled call of the default handler makes exactly one
\* InspectCargo call, for the tracking id of its event; so a registration
\* that returned nil caused exactly one inspection, of its tracking id, and
\* a registration that returned an error caused none.
C6_HandlerInspectsTrackingID ==
  /\ Len(inspected) = Len(handlerCalls)
  /\ \A i \in 1..Len(handlerCalls) :
       /\ i <= Len(inspected)
       /\ inspected[i].trackingID = handlerCalls[i].event.trackingID
  /\ \A c \in Callers :
       Returned(c) =>
         IF ret[c] = Nil
         THEN /\ Cardinality(CallsBy(handlerCalls, c)) = 1
              /\ \A i \in CallsBy(handlerCalls, c) :
                   i <= Len(inspected) /\ inspected[i].trackingID = args[c].trackingID
         ELSE CallsBy(handlerCalls, c) = {}

\* one registration of T2 inspected, next to a call the factory rejected
C6_Witness ==
  /\ Len(handlerCalls) = 1 /\ Len(inspected) = 1
  /\ inspected[1].trackingID = "T2"
  /\ \E c \in Callers : Returned(c) /\ ret[c] \in FactoryErrors

\* C7: with a clock that never goes backwards, a call reads the clock only
\* once its arguments have passed the check, passes what it read to the
\* factory as the registration time, and that time is not before the clock
\* at the moment the call was made; a call whose arguments fail the check
\* never reads the clock.
C7_RegistrationTimeAfterValidation ==
  [][/\ clock' >= clock
     /\ \A c \in Callers :
          /\ clockReads'[c] # clockReads[c] =>
               /\ pc[c] = "create" /\ ~Malformed(args[c])
               /\ clockReads'[c] = clockReads[c] + 1
               /\ Len(factoryCalls'[c]) = Len(factoryCalls[c]) + 1
               /\ factoryCalls'[c][Len(factoryCalls'[c])][1] = clock
               /\ callTime[c] >= 1
               /\ factoryCalls'[c][Len(factoryCalls'[c])][1] >= callTime[c]
          /\ Len(factoryCalls'[c]) # Len(factoryCalls[c]) =>
               clockReads'[c] # clockReads[c]
          /\ (pc'[c] # "idle" /\ Malformed(args'[c])) => clockReads'[c] = 0
    ]_vars

\* a registration whose registration time is later than the time of the call
C7_Witness ==
  \E c, d \in Callers :
    /\ pc[c] = "store" /\ clockReads[c] = 1
    /\ factoryCalls[c][1][1] > callTime[c]
    /\ Returned(d) /\ Malformed(args[d]) /\ clockReads[d] = 0

\* C8: concurrent registrations are not ordered with respect to each other;
\* the only order kept in every interleaving is that of one call: its
\* CargoWasHandled is invoked when its Store has been invoked.
C8_OnlyPerCallOrder ==
  [][\A c \in Callers :
       Cardinality(CallsBy(handlerCalls', c)) > Cardinality(CallsBy(handlerCalls, c)) =>
         /\ Cardinality(CallsBy(storeCalls, c)) = 1
         /\ pc[c] = "notify"
    ]_vars

\* caller 1 stored before caller 2, and caller 2 notified before caller 1
C8_Witness ==
  /\ Len(storeCalls) = 2 /\ Len(handlerCalls) = 2
  /\ storeCalls[1].caller = 1 /\ storeCalls[2].caller = 2
  /\ handlerCalls[1].caller = 2 /\ handlerCalls[2].caller = 1

\* the other store order, for two registrations of the same tracking id
C8_WitnessOtherOrder ==
  /\ Len(storeCalls) = 2 /\ Len(handlerCalls) = 2
  /\ storeCalls[1].caller = 2 /\ storeCalls[2].caller = 1
  /\ handlerCalls[1].caller = 1 /\ handlerCalls[2].caller = 2
  /\ args[1].trackingID = args[2].trackingID

\* C9: at any time there are at most as many CargoWasHandled calls as Store
\* calls and every notified event has been stored; when all calls have
\* returned, the Store calls, the CargoWasHandled calls and the calls that
\* returned nil are equally many; a call that returned an error has neither
\* stored nor notified anything.
C9_NotifiedWithinStored ==
  /\ Len(handlerCalls) <= Len(storeCalls)
  /\ \A i \in 1..Len(handlerCalls) :
       \E j \in 1..Len(storeCalls) :
         /\ storeCalls[j] = handlerCalls[i]
         /\ j <= Len(repo) /\ repo[j] = handlerCalls[i].event
  /\ (\A c \in Callers : Returned(c)) =>
       /\ Len(storeCalls) = Cardinality({c \in Callers : ret[c] = Nil})
       /\ Len(handlerCalls) = Cardinality({c \in Callers : ret[c] = Nil})
       /\ Len(repo) = Len(storeCalls)
  /\ \A c \in Callers :
       (Returned(c) /\ ret[c] # Nil) =>
         CallsBy(storeCalls, c) = {} /\ CallsBy(handlerCalls, c) = {}

C9_Witness ==
  /\ \A c \in Callers : Returned(c)
  /\ \E c \in Callers : ret[c] = Nil
  /\ \E c \in Callers : ret[c] \in FactoryErrors
  /\ Len(storeCalls) = Cardinality({c \in Callers : ret[c] = Nil})

\* C10: when InspectCargo(t) is invoked for a registration, the event of that
\* registration, with tracking id t, is in the repository already.
C10_InspectedAfterStored ==
  [][Len(inspected') > Len(inspected) =>
       \E c \in Callers :
         /\ Cardinality(CallsBy(handlerCalls', c)) > Cardinality(CallsBy(handlerCalls, c))
         /\ inspected'[Len(inspected')].trackingID = e[c].trackingID
         /\ \E i \in 1..Len(repo) :
              /\ repo[i] = e[c]
              /\ repo[i].trackingID = inspected'[Len(inspected')].trackingID
              /\ storeCalls[i].caller = c
    ]_vars

\* an inspection of T1 while two events of T1 are in the repository
C10_Witness ==
  /\ Len(repo) = 2 /\ repo[1].trackingID = "T1" /\ repo[2].trackingID = "T1"
  /\ Len(inspected) = 1 /\ inspected[1].trackingID = "T1"
====
